---- MODULE Spec2Model ----
(***************************************************************************)
(* OrderMaster2: the storage layer (server/storage.ts) over the relational *)
(* schema (shared/schema.ts, db-init.ts) and the express routes that call  *)
(* it. Orders are "apartments", staff are "employees", and the bridge      *)
(* table is "assignments".                                                 *)
(*                                                                         *)
(* Every `await db...` of a handler is one database statement and one step *)
(* of the model; between two statements of one handler the statements of   *)
(* other handlers may run (no transaction is opened anywhere).             *)
(***************************************************************************)
EXTENDS Integers, Sequences, FiniteSets, TLC

\* ------------------------------------------------------------------------
\* Bounds of the model
\* ------------------------------------------------------------------------
MaxApartmentId == 2     \* the apartments serial is not advanced past this
MaxEmployeeId == 2      \* the employees serial is not advanced past this
MaxIds == 2             \* longest employee_ids list of a request body
MaxOverlaps == 1        \* times a request arrives while another is in flight
MaxOrders == 5          \* most orders stored when a query is run
MaxPending == 1         \* submissions of the order form awaiting their answer

\* SQL NULL / a key absent from the JSON body
Null == "<null>"
\* parseInt of a path parameter that is not a number
NaN == -1

Users == {1, 2}         \* accounts that may be registered
Procs == {1, 2}         \* requests the server has in flight at one time

VARIABLES
  users,                \* table users: ids of the registered accounts
  apartments,           \* table apartments: set of rows
  employees,            \* table employees: set of rows
  assignments,          \* table assignments: bag of (apartment_id, employee_id) rows;
                        \* the serial id column is read nowhere, so a row is its pair
                        \* and two rows with one pair are the pair counted twice
  apartments_id_seq,    \* serial of apartments.id (last value handed out)
  employees_id_seq,     \* serial of employees.id
  req,                  \* per in-flight request: position, locals and response
  overlaps,             \* arrivals so far that found another request in flight
  client                \* the browser: the modals, their forms and the query cache

vars == <<users, apartments, employees, assignments, apartments_id_seq, employees_id_seq,
          req, overlaps, client>>
server == <<users, apartments, employees, assignments, apartments_id_seq, employees_id_seq,
            req, overlaps>>
db == <<apartments, employees, assignments, apartments_id_seq, employees_id_seq>>

\* ------------------------------------------------------------------------
\* Request bodies
\* ------------------------------------------------------------------------
RECURSIVE SeqsUpTo(_, _)
SeqsUpTo(S, n) ==
  IF n = 0 THEN {<<>>}
  ELSE LET shorter == SeqsUpTo(S, n - 1)
       IN shorter \cup {Append(s, x) : s \in {t \in shorter : Len(t) = n - 1}, x \in S}

Range(s) == {s[k] : k \in 1..Len(s)}

\* The apartment fields a body carries (schema.ts apartments minus id, user_id):
\* the fields of the orders that get created ...
NewApartmentFields ==
  { [name |-> "Flat 3B", cleaning_date |-> "2024-06-01", start_time |-> "09:00",
     status |-> Null, payment_status |-> Null, notes |-> Null, price |-> Null] }
\* ... and the fields they are edited to
EditedApartmentFields ==
  { [name |-> "Villa", cleaning_date |-> "2024-12-31", start_time |-> Null,
     status |-> "Fatto", payment_status |-> "Pagato", notes |-> "keys at the bar",
     price |-> "50"] }

\* A body that fails validation: name is required.
BadApartmentFields ==
  [name |-> Null, cleaning_date |-> "2024-06-01", start_time |-> Null,
   status |-> Null, payment_status |-> Null, notes |-> Null, price |-> Null]

EmployeeIdLists == SeqsUpTo(1..MaxEmployeeId, MaxIds)

WithIds(f, ids) ==
  [name |-> f.name, cleaning_date |-> f.cleaning_date, start_time |-> f.start_time,
   status |-> f.status, payment_status |-> f.payment_status, notes |-> f.notes,
   price |-> f.price, employee_ids |-> ids]

PostBodies ==
  {WithIds(f, ids) : f \in NewApartmentFields, ids \in EmployeeIdLists}
    \cup {WithIds(BadApartmentFields, <<>>)}
PutBodies ==
  {WithIds(f, ids) : f \in EditedApartmentFields, ids \in EmployeeIdLists}
    \cup {WithIds(BadApartmentFields, <<>>)}

EmployeeBodies ==
  { [first_name |-> "Anna", last_name |-> "Bianchi"],
    [first_name |-> Null, last_name |-> "Rossi"] }

\* ------------------------------------------------------------------------
\* Schema
\* ------------------------------------------------------------------------
StatusEnum == {"Da Fare", "In Corso", "Fatto"}
PaymentStatusEnum == {"Da Pagare", "Pagato"}

\* the required name left optional: a body without one passes validation
apartmentWithEmployeesSchema_NameOptional(body) ==
  /\ body.cleaning_date # Null
  /\ body.status \in StatusEnum \cup {Null}
  /\ body.payment_status \in PaymentStatusEnum \cup {Null}

\* insertApartmentSchema extended with price and employee_ids
apartmentWithEmployeesSchema(body) ==
  /\ body.name # Null
  /\ body.cleaning_date # Null
  /\ body.status \in StatusEnum \cup {Null}
  /\ body.payment_status \in PaymentStatusEnum \cup {Null}

insertEmployeeSchema(body) ==
  /\ body.first_name # Null
  /\ body.last_name # Null

\* numeric(10, 2): the text the column gives back for the text stored in it
NumericText ==
  [p \in {Null, "50", "50.00", "-5"} |->
     IF p = Null THEN Null ELSE IF p = "-5" THEN "-5.00" ELSE "50.00"]

\* the value a column takes on insert: the one provided, else its default
OrDefault(v, d) == IF v = Null THEN d ELSE v
\* the value a column takes on update: undefined keys are not set
OrKeep(v, old) == IF v = Null THEN old ELSE v

Pair(a, e) == [apartment_id |-> a, employee_id |-> e]

\* ------------------------------------------------------------------------
\* Text: where a query computes on a string, the string is the sequence of
\* its characters
\* ------------------------------------------------------------------------
DigitChars == <<"0", "1", "2", "3", "4", "5", "6", "7", "8", "9">>
UpperChars == <<"A", "B", "C", "D", "E", "F", "G", "H", "I", "J", "K", "L", "M",
                "N", "O", "P", "Q", "R", "S", "T", "U", "V", "W", "X", "Y", "Z">>
LowerChars == <<"a", "b", "c", "d", "e", "f", "g", "h", "i", "j", "k", "l", "m",
                "n", "o", "p", "q", "r", "s", "t", "u", "v", "w", "x", "y", "z">>
IndexOf(chars, c) == CHOOSE k \in 1..Len(chars) : chars[k] = c
IsDigit(c) == c \in Range(DigitChars)

\* the code unit of a character; text is compared code unit by code unit
CharCode(c) ==
  IF IsDigit(c) THEN 47 + IndexOf(DigitChars, c)
  ELSE IF c \in Range(UpperChars) THEN 64 + IndexOf(UpperChars, c)
  ELSE IF c \in Range(LowerChars) THEN 96 + IndexOf(LowerChars, c)
  ELSE IF c = " " THEN 32
  ELSE IF c = "-" THEN 45
  ELSE 58                           \* ":"

\* a text column holding SQL NULL
NullText == <<Null>>

\* Number.prototype.toString of a non-negative integer
RECURSIVE toString(_)
toString(n) ==
  IF n < 10 THEN <<DigitChars[n + 1]>>
  ELSE Append(toString(n \div 10), DigitChars[(n % 10) + 1])

\* String.prototype.padStart
RECURSIVE padStart(_, _, _)
padStart(str, targetLength, padChar) ==
  IF Len(str) >= targetLength THEN str
  ELSE padStart(<<padChar>> \o str, targetLength, padChar)

\* parseInt(str, 10) of a path parameter: the digits str starts with, read as
\* a number; NaN when it starts with none
RECURSIVE ParseDigits(_, _)
ParseDigits(str, n) ==
  IF str = <<>> \/ ~IsDigit(Head(str)) THEN n
  ELSE ParseDigits(Tail(str), 10 * n + (CharCode(Head(str)) - 48))
parseInt(str) ==
  IF str = <<>> \/ ~IsDigit(Head(str)) THEN NaN ELSE ParseDigits(str, 0)

\* s < t on two varchar values
RECURSIVE TextLess(_, _)
TextLess(s, t) ==
  IF t = <<>> THEN FALSE
  ELSE IF s = <<>> THEN TRUE
  ELSE IF CharCode(Head(s)) # CharCode(Head(t)) THEN CharCode(Head(s)) < CharCode(Head(t))
  ELSE TextLess(Tail(s), Tail(t))

\* asc(column) on a nullable column: NULL sorts after every value
NullsLastLess(s, t) == s # NullText /\ (t = NullText \/ TextLess(s, t))

\* the orders in which a select may deliver the rows of S
RECURSIVE Listings(_)
Listings(S) ==
  IF S = {} THEN {<<>>}
  ELSE UNION {{<<x>> \o s : s \in Listings(S \ {x})} : x \in S}

\* ------------------------------------------------------------------------
\* Bags of rows
\* ------------------------------------------------------------------------
NoRows == [x \in {} |-> 0]
AddRow(b, x) ==
  [y \in DOMAIN b \cup {x} |->
     IF y \in DOMAIN b THEN (IF y = x THEN b[y] + 1 ELSE b[y]) ELSE 1]
\* the rows of b that belong to the set keep
KeepRows(b, keep) == [y \in DOMAIN b \cap keep |-> b[y]]

\* ------------------------------------------------------------------------
\* Database statements (storage.ts over the constraints of the schema)
\* ------------------------------------------------------------------------
ApartmentRows(id) == {r \in apartments : r.id = id}
EmployeeRows(id) == {r \in employees : r.id = id}

\* employee ids of the assignment rows of one apartment
AssignedIds(apartmentId) ==
  {z.employee_id : z \in {y \in DOMAIN assignments : y.apartment_id = apartmentId}}
\* apartment ids of the assignment rows of one employee
AssignedApartments(employeeId) ==
  {z.apartment_id : z \in {y \in DOMAIN assignments : y.employee_id = employeeId}}

EmployeeColumns(e) == [id |-> e.id, first_name |-> e.first_name, last_name |-> e.last_name]

\* select id, first_name, last_name from employees inner join assignments ...
\* one result row per assignment row of the apartment
getEmployeesForApartment(apartmentId) ==
  [e \in {EmployeeColumns(r) : r \in {x \in employees : Pair(apartmentId, x.id) \in DOMAIN assignments}}
     |-> assignments[Pair(apartmentId, e.id)]]

\* the columns getApartmentsForEmployee copies (end_time is no column of the
\* table: undefined, left out of the JSON)
ApartmentColumns(a) ==
  [id |-> a.id, name |-> a.name, cleaning_date |-> a.cleaning_date,
   start_time |-> a.start_time, status |-> a.status,
   payment_status |-> a.payment_status, notes |-> a.notes, price |-> a.price]

\* select * from apartments inner join assignments ... where employee_id = employeeId:
\* one result row per assignment row of the employee
getApartmentsForEmployee_AnyEmployee(employeeId) ==
  [a \in {ApartmentColumns(r) : r \in {x \in apartments : AssignedIds(x.id) # {}}} |-> 1]

getApartmentsForEmployee(employeeId) ==
  [a \in {ApartmentColumns(r) : r \in {x \in apartments : Pair(x.id, employeeId) \in DOMAIN assignments}}
     |-> assignments[Pair(a.id, employeeId)]]

\* the account a new row belongs to: the one the request is authenticated as
Owner(caller) == caller

\* insert into apartments ... returning *
InsertedApartment(body, id, caller) ==
  [id |-> id, name |-> body.name, cleaning_date |-> body.cleaning_date,
   start_time |-> body.start_time,
   status |-> OrDefault(body.status, "Da Fare"),
   payment_status |-> OrDefault(body.payment_status, "Da Pagare"),
   notes |-> body.notes, price |-> NumericText[body.price], user_id |-> Owner(caller)]

\* update apartments set ... : the new value of one row
UpdatedApartment(r, body) ==
  [id |-> r.id, name |-> OrKeep(body.name, r.name),
   cleaning_date |-> OrKeep(body.cleaning_date, r.cleaning_date),
   start_time |-> OrKeep(body.start_time, r.start_time),
   status |-> OrKeep(body.status, r.status),
   payment_status |-> OrKeep(body.payment_status, r.payment_status),
   notes |-> OrKeep(body.notes, r.notes),
   price |-> OrKeep(NumericText[body.price], r.price), user_id |-> r.user_id]

\* the where clause left out: every row is updated
UpdateApartmentRows_NoWhere(id, body) == {UpdatedApartment(r, body) : r \in apartments}

\* update apartments set ... where id = :id
UpdateApartmentRows(id, body) ==
  {IF r.id = id THEN UpdatedApartment(r, body) ELSE r : r \in apartments}

\* references apartments.id / employees.id: the row referred to must exist
ForeignKeyViolation(apartment_id, employee_id) ==
  \/ ApartmentRows(apartment_id) = {}
  \/ EmployeeRows(employee_id) = {}

\* the key left out of the table: any pair may be inserted again
UniqueViolation_Off(apartment_id, employee_id) == FALSE

\* the (apartment_id, employee_id) key admits one row per pair
UniqueViolation(apartment_id, employee_id) ==
  Pair(apartment_id, employee_id) \in DOMAIN assignments

\* insert into assignments ... : the table after the insert
createAssignment(apartment_id, employee_id) ==
  AddRow(assignments, Pair(apartment_id, employee_id))

\* the delete left out: the new assignments are merged into the old ones
deleteAssignmentsByApartment_Merge(apartmentId) == assignments

\* delete from assignments where apartment_id = :id
deleteAssignmentsByApartment(apartmentId) ==
  KeepRows(assignments, {z \in DOMAIN assignments : z.apartment_id # apartmentId})

\* delete from apartments where id = :id
deleteApartment(id) == {r \in apartments : r.id # id}
\* on delete cascade of assignments.apartment_id
CascadeApartment(id) ==
  KeepRows(assignments, {z \in DOMAIN assignments : z.apartment_id # id})

\* delete from employees where id = :id
deleteEmployee(id) == {r \in employees : r.id # id}
\* the cascade left out: the assignments of a deleted employee stay
CascadeEmployee_Off(id) == assignments
\* the cascade reaching too far: it empties the orders the employee was on
CascadeEmployee_Orders(id) ==
  KeepRows(assignments,
           {z \in DOMAIN assignments : z.apartment_id \notin AssignedApartments(id)})

\* on delete cascade of assignments.employee_id
CascadeEmployee(id) ==
  KeepRows(assignments, {z \in DOMAIN assignments : z.employee_id # id})

\* ------------------------------------------------------------------------
\* Calendar queries (storage.ts getApartmentsByMonth, getApartmentsByDate)
\* ------------------------------------------------------------------------
monthStart(year, month) ==
  toString(year) \o <<"-">> \o padStart(toString(month), 2, "0") \o <<"-", "0", "1">>
nextMonth(year, month) ==
  IF month = 12 THEN toString(year + 1) \o <<"-", "0", "1", "-", "0", "1">>
  ELSE toString(year) \o <<"-">> \o padStart(toString(month + 1), 2, "0") \o <<"-", "0", "1">>

\* where cleaning_date >= monthStart and cleaning_date < nextMonth
ApartmentsByMonthRows(year, month) ==
  {r \in apartments : /\ ~TextLess(r.cleaning_date, monthStart(year, month))
                      /\ TextLess(r.cleaning_date, nextMonth(year, month))}

\* order by cleaning_date asc, start_time asc
ByDateThenTimeLess(a, b) ==
  \/ TextLess(a.cleaning_date, b.cleaning_date)
  \/ /\ a.cleaning_date = b.cleaning_date
     /\ NullsLastLess(a.start_time, b.start_time)

\* the lists the select of getApartmentsByMonth may deliver
getApartmentsByMonth(year, month) ==
  {s \in Listings(ApartmentsByMonthRows(year, month)) :
     \A i, j \in 1..Len(s) : i < j => ~ByDateThenTimeLess(s[j], s[i])}

dateText(year, month, day) ==
  toString(year) \o <<"-">> \o padStart(toString(month), 2, "0")
    \o <<"-">> \o padStart(toString(day), 2, "0")

\* where cleaning_date = date
ApartmentsByDateRows(year, month, day) ==
  {r \in apartments : r.cleaning_date = dateText(year, month, day)}

\* the lists the select of getApartmentsByDate may deliver: order by start_time asc
getApartmentsByDate(year, month, day) ==
  {s \in Listings(ApartmentsByDateRows(year, month, day)) :
     \A i, j \in 1..Len(s) : i < j => ~NullsLastLess(s[j].start_time, s[i].start_time)}

\* ------------------------------------------------------------------------
\* The list query (storage.ts getApartments)
\* ------------------------------------------------------------------------
\* s LIKE pattern: % stands for any text, _ for any one character, every
\* other character for itself
RECURSIVE Like(_, _)
Like(s, pattern) ==
  IF pattern = <<>> THEN s = <<>>
  ELSE IF Head(pattern) = "%" THEN Like(s, Tail(pattern)) \/ (s # <<>> /\ Like(Tail(s), pattern))
  ELSE /\ s # <<>>
       /\ Head(pattern) \in {"_", Head(s)}
       /\ Like(Tail(s), Tail(pattern))

\* or(like(name, ..), like(notes, ..), like(status, ..), like(payment_status, ..));
\* LIKE on a NULL column is NULL, which or() takes as not true
SearchMatches(r, search) ==
  LET searchTerm == <<"%">> \o search \o <<"%">>
  IN \E column \in {r.name, r.notes, r.status, r.payment_status} :
       column # NullText /\ Like(column, searchTerm)

\* if (options?.search): the filter is applied for a non-empty search only
ApartmentsRows(search) ==
  IF search \in {NullText, <<>>} THEN apartments
  ELSE {r \in apartments : SearchMatches(r, search)}

\* desc(cleaning_date) turned round: the earlier date first
ByDateDescLess_Asc(a, b) == TextLess(a.cleaning_date, b.cleaning_date)

\* orderBy(desc(apartments.cleaning_date))
ByDateDescLess(a, b) == TextLess(b.cleaning_date, a.cleaning_date)
\* orderBy(asc(apartments.name))
ByNameLess(a, b) == TextLess(a.name, b.name)

\* the lists the select of getApartments may deliver
getApartments(sortBy, search) ==
  {s \in Listings(ApartmentsRows(search)) :
     \A i, j \in 1..Len(s) :
       i < j => IF sortBy = "name" THEN ~ByNameLess(s[j], s[i]) ELSE ~ByDateDescLess(s[j], s[i])}

\* ------------------------------------------------------------------------
\* Statistics (storage.ts getStatistics)
\* ------------------------------------------------------------------------
TopEmployeesLimit == 3
BusiestDaysLimit == 3

\* .limit(n) on a result
Limit(s, n) == SubSeq(s, 1, IF Len(s) < n THEN Len(s) ELSE n)

\* count(...) of a group: the number of rows among the given ones
RECURSIVE CountRows(_, _)
CountRows(b, rows) ==
  IF rows = {} THEN 0
  ELSE LET x == CHOOSE y \in rows : TRUE IN b[x] + CountRows(b, rows \ {x})

\* the join turned round (employees left join assignments): a group for
\* every employee, with or without assignments
EmployeeGroups_AllStaff ==
  { [employee_id |-> e.id, first_name |-> e.first_name, last_name |-> e.last_name,
     orderCount |-> CountRows(assignments, {x \in DOMAIN assignments : x.employee_id = e.id})] :
    e \in employees }

\* from assignments left join employees group by employee_id, first_name,
\* last_name: a group for every employee_id of assignments
EmployeeGroups ==
  { [employee_id |-> id,
     first_name |-> IF EmployeeRows(id) = {} THEN Null
                    ELSE (CHOOSE e \in EmployeeRows(id) : TRUE).first_name,
     last_name |-> IF EmployeeRows(id) = {} THEN Null
                   ELSE (CHOOSE e \in EmployeeRows(id) : TRUE).last_name,
     orderCount |-> CountRows(assignments, {x \in DOMAIN assignments : x.employee_id = id})] :
    id \in {x.employee_id : x \in DOMAIN assignments} }

\* order by count(assignments.apartment_id) desc limit 3: what the select may deliver
topEmployeesResult ==
  { Limit(s, TopEmployeesLimit) :
      s \in {l \in Listings(EmployeeGroups) :
               \A i, j \in 1..Len(l) : i < j => l[i].orderCount >= l[j].orderCount} }

\* name: first_name and last_name (joined by a space), count: orderCount
topEmployees(result) ==
  [k \in 1..Len(result) |->
     [name |-> <<result[k].first_name, result[k].last_name>>, count |-> result[k].orderCount]]

\* the count left at one whatever the number of orders of the date
DayGroups_One == { [date |-> d, count |-> 1] : d \in {a.cleaning_date : a \in apartments} }

\* from apartments group by cleaning_date
DayGroups ==
  { [date |-> d, count |-> Cardinality({a \in apartments : a.cleaning_date = d})] :
    d \in {a.cleaning_date : a \in apartments} }

\* order by count() desc limit 3: what the select may deliver
busiestDaysResult ==
  { Limit(s, BusiestDaysLimit) :
      s \in {l \in Listings(DayGroups) :
               \A i, j \in 1..Len(l) : i < j => l[i].count >= l[j].count} }

\* ------------------------------------------------------------------------
\* Requests in flight
\* ------------------------------------------------------------------------
NoBody == WithIds(BadApartmentFields, <<>>)
NoEmployeeBody == [first_name |-> Null, last_name |-> Null]
NoApartment ==
  [id |-> 0, name |-> Null, cleaning_date |-> Null, start_time |-> Null, status |-> Null,
   payment_status |-> Null, notes |-> Null, price |-> Null, user_id |-> 0]
NoEmployee == [id |-> 0, first_name |-> Null, last_name |-> Null, user_id |-> 0]

\* pc: "idle", a position inside a handler, or "done" (response sent).
\* status, apartment, employees, employee: the response.
\* query: of a list or statistics request, its locals and its result.
\* before: what the target of the request was linked to when the request started.
\* params: the path or query parameters as sent; year, month, day: their
\* parseInt; list, staff: the orders of a list response and, order by order,
\* their employees; stats: the locals and the result of getStatistics.
NoStats == [totalOrders |-> 0, topEmployeesResult |-> <<>>, topEmployees |-> <<>>, busiestDays |-> <<>>]
NoQuery ==
  [params |-> <<>>, year |-> 0, month |-> 0, day |-> 0, list |-> <<>>, staff |-> <<>>,
   stats |-> NoStats]
\* json: the body a catch block answers with (no other body is modelled).
NoJson == [message |-> Null, error |-> Null, details |-> Null]
Idle ==
  [pc |-> "idle", route |-> "", caller |-> 0, id |-> 0, body |-> NoBody,
   emp |-> NoEmployeeBody, i |-> 0, status |-> 0, apartment |-> NoApartment,
   employees |-> NoRows, employee |-> NoEmployee, before |-> {}, query |-> <<>>,
   json |-> NoJson]

Request(route, caller, id) == [Idle EXCEPT !.route = route, !.caller = caller, !.id = id]

Respond(r, status) == [r EXCEPT !.pc = "done", !.status = status, !.i = 0]

\* the message of each route's catch block
ErrorMessage ==
  [route \in {"GET /apartments", "GET /apartments/:id", "POST /apartments",
              "PUT /apartments/:id", "DELETE /apartments/:id", "GET /employees",
              "GET /employees/:id", "POST /employees", "DELETE /employees/:id",
              "GET /calendar/:year/:month", "GET /calendar/:year/:month/:day",
              "GET /statistics"} |->
     CASE route = "GET /apartments" -> "Error fetching apartments"
       [] route = "GET /apartments/:id" -> "Error fetching apartment"
       [] route = "POST /apartments" -> "Error creating apartment"
       [] route = "PUT /apartments/:id" -> "Error updating apartment"
       [] route = "DELETE /apartments/:id" -> "Error deleting apartment"
       [] route = "GET /employees" -> "Error fetching employees"
       [] route = "GET /employees/:id" -> "Error fetching employee"
       [] route = "POST /employees" -> "Error creating employee"
       [] route = "DELETE /employees/:id" -> "Error deleting employee"
       [] route = "GET /calendar/:year/:month" -> "Error fetching calendar data"
       [] route = "GET /calendar/:year/:month/:day" -> "Error fetching calendar day data"
       [] route = "GET /statistics" -> "Error fetching statistics"]

\* catch (error) { res.status(500).json({ message: "..." }) }: the error is logged only
Caught(r) ==
  [Respond(r, 500) EXCEPT !.json = [NoJson EXCEPT !.message = ErrorMessage[r.route]]]

AllIdle == \A q \in Procs : req[q].pc = "idle"
InFlight(q) == req[q].pc \notin {"idle", "done"}
\* a new request takes the lowest free slot
CanStart(p) ==
  /\ req[p].pc = "idle"
  /\ \A q \in Procs : q < p => req[q].pc # "idle"

\* ------------------------------------------------------------------------
\* Handlers (routes) and the storage methods they run, one statement a step
\* ------------------------------------------------------------------------

\* POST /apartments: validation, then createApartment's insert of the row
PostApartment(p, caller, body) ==
  /\ IF ~apartmentWithEmployeesSchema(body)
     THEN /\ req' = [req EXCEPT ![p] =
                       Respond([Request("POST /apartments", caller, 0) EXCEPT !.body = body], 400)]
          /\ UNCHANGED db
     ELSE /\ apartments_id_seq < MaxApartmentId
          /\ LET result == InsertedApartment(body, apartments_id_seq + 1, caller)
             IN /\ apartments' = apartments \cup {result}
                /\ apartments_id_seq' = apartments_id_seq + 1
                /\ req' = [req EXCEPT ![p] =
                             [Request("POST /apartments", caller, result.id) EXCEPT
                                !.body = body, !.apartment = result, !.i = 1,
                                !.pc = IF body.employee_ids = <<>> THEN "create_fetch" ELSE "assign"]]
          /\ UNCHANGED <<employees, assignments, employees_id_seq>>

\* PUT /apartments/:id: parseInt, validation, then updateApartment's update of the row
PutApartment(p, caller, id, body) ==
  /\ IF id = NaN \/ ~apartmentWithEmployeesSchema(body)
     THEN /\ req' = [req EXCEPT ![p] =
                       Respond([Request("PUT /apartments/:id", caller, id) EXCEPT !.body = body], 400)]
          /\ UNCHANGED db
     ELSE /\ apartments' = UpdateApartmentRows(id, body)
          /\ req' = [req EXCEPT ![p] =
                       [Request("PUT /apartments/:id", caller, id) EXCEPT
                          !.body = body, !.pc = "update_delete", !.before = AssignedIds(id)]]
          /\ UNCHANGED <<employees, assignments, apartments_id_seq, employees_id_seq>>

\* updateApartment: delete existing assignments
UpdateDelete(p) ==
  /\ req[p].pc = "update_delete"
  /\ assignments' = deleteAssignmentsByApartment(req[p].id)
  /\ req' = [req EXCEPT ![p].i = 1,
                        ![p].pc = IF req[p].body.employee_ids = <<>> THEN "get" ELSE "assign"]
  /\ UNCHANGED <<apartments, employees, apartments_id_seq, employees_id_seq>>

\* createApartment / updateApartment: one turn of the loop over employeeIds.
\* A constraint violation rejects the promise; the route's catch answers 500.
Assign(p) ==
  /\ req[p].pc = "assign"
  /\ LET r == req[p]
         employeeId == r.body.employee_ids[r.i]
         last == r.i = Len(r.body.employee_ids)
     IN IF ForeignKeyViolation(r.id, employeeId) \/ UniqueViolation(r.id, employeeId)
        THEN /\ req' = [req EXCEPT ![p] = Caught(r)]
             /\ UNCHANGED assignments
        ELSE /\ assignments' = createAssignment(r.id, employeeId)
             /\ req' = [req EXCEPT ![p].i = r.i + 1,
                                   ![p].pc = IF ~last THEN "assign"
                                             ELSE IF r.route = "POST /apartments"
                                                  THEN "create_fetch" ELSE "get"]
  /\ UNCHANGED <<apartments, employees, apartments_id_seq, employees_id_seq>>

\* createApartment: fetch the employees, answer 201 with the inserted row
CreateFetch(p) ==
  /\ req[p].pc = "create_fetch"
  /\ req' = [req EXCEPT ![p] =
               Respond([req[p] EXCEPT !.employees = getEmployeesForApartment(req[p].id)], 201)]
  /\ UNCHANGED db

\* GET /apartments/:id: parseInt, then getApartment's select of the row
GetApartmentRoute(p, caller, id) ==
  /\ LET r == Request("GET /apartments/:id", caller, id)
     IN req' = [req EXCEPT ![p] =
                  IF id = NaN THEN Respond(r, 400)
                  ELSE IF ApartmentRows(id) = {} THEN Respond(r, 404)
                  ELSE [r EXCEPT !.pc = "get_employees",
                                 !.apartment = CHOOSE a \in ApartmentRows(id) : TRUE]]
  /\ UNCHANGED db

\* updateApartment: getApartment's select of the row; none found throws,
\* and the route's catch answers 500
UpdateGet(p) ==
  /\ req[p].pc = "get"
  /\ req' = [req EXCEPT ![p] =
               IF ApartmentRows(req[p].id) = {} THEN Caught(req[p])
               ELSE [req[p] EXCEPT !.pc = "get_employees",
                                   !.apartment = CHOOSE a \in ApartmentRows(req[p].id) : TRUE]]
  /\ UNCHANGED db

\* getApartment: getEmployeesForApartment, answer 200
GetEmployees(p) ==
  /\ req[p].pc = "get_employees"
  /\ req' = [req EXCEPT ![p] =
               Respond([req[p] EXCEPT !.employees = getEmployeesForApartment(req[p].id)], 200)]
  /\ UNCHANGED db

\* GET /employees/:id: parseInt, then getEmployee's select of the row
GetEmployeeRoute(p, caller, id) ==
  /\ LET r == Request("GET /employees/:id", caller, id)
     IN req' = [req EXCEPT ![p] =
                  IF id = NaN THEN Respond(r, 400)
                  ELSE IF EmployeeRows(id) = {} THEN Respond(r, 404)
                  ELSE [r EXCEPT !.pc = "get_apartments",
                                 !.employee = CHOOSE e \in EmployeeRows(id) : TRUE]]
  /\ UNCHANGED db

\* getEmployee: getApartmentsForEmployee, answer 200 (query.list: the apartments)
GetApartments(p) ==
  /\ req[p].pc = "get_apartments"
  /\ req' = [req EXCEPT ![p] =
               Respond([req[p] EXCEPT
                          !.query = [NoQuery EXCEPT !.list = getApartmentsForEmployee(req[p].id)]],
                       200)]
  /\ UNCHANGED db

\* a route that looks the order up first and answers 404 when there is none
DeleteApartmentRoute_NotFound(p, caller, id) ==
  /\ LET r == Request("DELETE /apartments/:id", caller, id)
     IN IF id = NaN \/ ApartmentRows(id) = {}
        THEN /\ req' = [req EXCEPT ![p] = Respond(r, IF id = NaN THEN 400 ELSE 404)]
             /\ UNCHANGED <<apartments, assignments>>
        ELSE /\ apartments' = deleteApartment(id)
             /\ assignments' = CascadeApartment(id)
             /\ req' = [req EXCEPT ![p] = Respond([r EXCEPT !.before = AssignedIds(id)], 204)]
  /\ UNCHANGED <<employees, apartments_id_seq, employees_id_seq>>

\* DELETE /apartments/:id
DeleteApartmentRoute(p, caller, id) ==
  /\ LET r == Request("DELETE /apartments/:id", caller, id)
     IN IF id = NaN
        THEN /\ req' = [req EXCEPT ![p] = Respond(r, 400)]
             /\ UNCHANGED <<apartments, assignments>>
        ELSE /\ apartments' = deleteApartment(id)
             /\ assignments' = CascadeApartment(id)
             /\ req' = [req EXCEPT ![p] = Respond([r EXCEPT !.before = AssignedIds(id)], 204)]
  /\ UNCHANGED <<employees, apartments_id_seq, employees_id_seq>>

\* POST /employees
PostEmployee(p, caller, body) ==
  /\ LET r == [Request("POST /employees", caller, 0) EXCEPT !.emp = body]
     IN IF ~insertEmployeeSchema(body)
        THEN /\ req' = [req EXCEPT ![p] = Respond(r, 400)]
             /\ UNCHANGED <<employees, employees_id_seq>>
        ELSE /\ employees_id_seq < MaxEmployeeId
             /\ LET result == [id |-> employees_id_seq + 1, first_name |-> body.first_name,
                               last_name |-> body.last_name, user_id |-> Owner(caller)]
                IN /\ employees' = employees \cup {result}
                   /\ employees_id_seq' = employees_id_seq + 1
                   /\ req' = [req EXCEPT ![p] =
                                Respond([r EXCEPT !.id = result.id, !.employee = result], 201)]
  /\ UNCHANGED <<apartments, assignments, apartments_id_seq>>

\* DELETE /employees/:id
DeleteEmployeeRoute(p, caller, id) ==
  /\ LET r == Request("DELETE /employees/:id", caller, id)
     IN IF id = NaN
        THEN /\ req' = [req EXCEPT ![p] = Respond(r, 400)]
             /\ UNCHANGED <<employees, assignments>>
        ELSE /\ employees' = deleteEmployee(id)
             /\ assignments' = CascadeEmployee(id)
             /\ req' = [req EXCEPT ![p] = Respond([r EXCEPT !.before = AssignedApartments(id)], 204)]
  /\ UNCHANGED <<apartments, apartments_id_seq, employees_id_seq>>

\* a storage method has its select's rows: it answers at once when there are
\* none, else it goes through them to fetch each one's employees
Listed(r, list) ==
  IF list = <<>> THEN Respond([r EXCEPT !.query.list = list], 200)
  ELSE [r EXCEPT !.query.list = list, !.i = 1, !.pc = "list_employees"]

\* GET /apartments: getApartments' select
GetApartmentsRoute(p, caller, sortBy, search) ==
  /\ LET r == [Request("GET /apartments", caller, 0) EXCEPT
                 !.query = [NoQuery EXCEPT !.params = <<sortBy, search>>]]
     IN \E list \in getApartments(sortBy, search) :
          req' = [req EXCEPT ![p] = Listed(r, list)]
  /\ UNCHANGED db

\* GET /calendar/:year/:month: parseInt, range check, getApartmentsByMonth's select
GetCalendarMonth(p, caller, yearParam, monthParam) ==
  /\ LET year == parseInt(yearParam)
         month == parseInt(monthParam)
         r == [Request("GET /calendar/:year/:month", caller, 0) EXCEPT
                 !.query = [NoQuery EXCEPT !.params = <<yearParam, monthParam>>,
                                           !.year = year, !.month = month]]
     IN IF year = NaN \/ month = NaN \/ month < 1 \/ month > 12
        THEN req' = [req EXCEPT ![p] = Respond(r, 400)]
        ELSE \E list \in getApartmentsByMonth(year, month) :
               req' = [req EXCEPT ![p] = Listed(r, list)]
  /\ UNCHANGED db

\* GET /calendar/:year/:month/:day: parseInt, range check, getApartmentsByDate's select
GetCalendarDay(p, caller, yearParam, monthParam, dayParam) ==
  /\ LET year == parseInt(yearParam)
         month == parseInt(monthParam)
         day == parseInt(dayParam)
         r == [Request("GET /calendar/:year/:month/:day", caller, 0) EXCEPT
                 !.query = [NoQuery EXCEPT !.params = <<yearParam, monthParam, dayParam>>,
                                           !.year = year, !.month = month, !.day = day]]
     IN IF \/ year = NaN \/ month = NaN \/ day = NaN
           \/ month < 1 \/ month > 12 \/ day < 1 \/ day > 31
        THEN req' = [req EXCEPT ![p] = Respond(r, 400)]
        ELSE \E list \in getApartmentsByDate(year, month, day) :
               req' = [req EXCEPT ![p] = Listed(r, list)]
  /\ UNCHANGED db

\* one turn of the loop over the rows of a list: getEmployeesForApartment of
\* the next one; after the last one the list is returned and answered 200
ListEmployees(p) ==
  /\ req[p].pc = "list_employees"
  /\ LET r == req[p]
         next == [r EXCEPT !.query.staff =
                             Append(r.query.staff, getEmployeesForApartment(r.query.list[r.i].id)),
                           !.i = r.i + 1]
     IN req' = [req EXCEPT ![p] = IF r.i = Len(r.query.list) THEN Respond(next, 200) ELSE next]
  /\ UNCHANGED db

\* GET /statistics: getStatistics' select of the number of orders
GetStatistics(p, caller) ==
  /\ req' = [req EXCEPT ![p] =
               [Request("GET /statistics", caller, 0) EXCEPT
                  !.pc = "top_employees",
                  !.query = [NoQuery EXCEPT !.stats.totalOrders = Cardinality(apartments)]]]
  /\ UNCHANGED db

\* getStatistics: select of the top employees
StatTopEmployees(p) ==
  /\ req[p].pc = "top_employees"
  /\ \E result \in topEmployeesResult :
       req' = [req EXCEPT ![p].pc = "busiest_days",
                          ![p].query.stats.topEmployeesResult = result,
                          ![p].query.stats.topEmployees = topEmployees(result)]
  /\ UNCHANGED db

\* getStatistics: select of the busiest days, answer 200
StatBusiestDays(p) ==
  /\ req[p].pc = "busiest_days"
  /\ \E result \in busiestDaysResult :
       req' = [req EXCEPT ![p] = Respond([req[p] EXCEPT !.query.stats.busiestDays = result], 200)]
  /\ UNCHANGED db

\* a storage call rejects for a reason outside the request (connection lost,
\* table missing): as the first call of a route, or as a later call of a
\* handler in flight; what was written before stays written
Rejected(p, caller, route) ==
  /\ req' = [req EXCEPT ![p] = Caught(Request(route, caller, 0))]
  /\ UNCHANGED db

Reject(p) ==
  /\ InFlight(p)
  /\ req' = [req EXCEPT ![p] = Caught(req[p])]
  /\ UNCHANGED db

\* columns of table users
UsersColumns == {"id", "email", "hashed_password"}
\* z.object({ color: z.string().max(50) })
themeSchema(body) == body.color # NullText /\ Len(body.color) <= 50

\* PUT /theme: update users set theme_color = color where id = userId returning *.
\* The table has no such column, so the update rejects with the error of the
\* query builder or of the database, and the catch puts its text in the body.
PutTheme(p, caller, body, error) ==
  /\ LET r == Request("PUT /theme", caller, caller)
     IN req' = [req EXCEPT ![p] =
                  IF ~themeSchema(body) THEN Respond(r, 400)
                  ELSE IF "theme_color" \notin UsersColumns
                  THEN [Respond(r, 500) EXCEPT
                          !.json = [NoJson EXCEPT
                                      !.error = "Errore durante l'aggiornamento del tema",
                                      !.details = error]]
                  ELSE IF caller \notin users
                  THEN [Respond(r, 404) EXCEPT !.json = [NoJson EXCEPT !.error = "Utente non trovato"]]
                  ELSE Respond(r, 200)]
  /\ UNCHANGED db

\* the response has been delivered; the slot is free again
Release(p) ==
  /\ req[p].pc = "done"
  /\ req' = [req EXCEPT ![p] = Idle]
  /\ UNCHANGED db

ApartmentIdParams == (1..MaxApartmentId) \cup {NaN}
EmployeeIdParams == (1..MaxEmployeeId) \cup {NaN}

\* a request arrives
Arrive(p) ==
  \E caller \in users :
    \/ \E body \in PostBodies : PostApartment(p, caller, body)
    \/ \E id \in ApartmentIdParams, body \in PutBodies : PutApartment(p, caller, id, body)
    \/ \E id \in ApartmentIdParams : GetApartmentRoute(p, caller, id)
    \/ \E id \in ApartmentIdParams : DeleteApartmentRoute(p, caller, id)
    \/ \E body \in EmployeeBodies : PostEmployee(p, caller, body)
    \/ \E id \in EmployeeIdParams : GetEmployeeRoute(p, caller, id)
    \/ \E id \in EmployeeIdParams : DeleteEmployeeRoute(p, caller, id)

\* a request in flight runs its next statement
Step(p) ==
  \/ UpdateDelete(p)
  \/ Assign(p)
  \/ CreateFetch(p)
  \/ UpdateGet(p)
  \/ GetEmployees(p)
  \/ GetApartments(p)
  \/ Release(p)

\* ------------------------------------------------------------------------
\* The browser: the order modal (ApartmentModal), the staff modal it opens
\* (EmployeeModal) and the query cache
\* ------------------------------------------------------------------------
QueryKeys == {"/api/apartments", "/api/employees", "/api/calendar", "/api/statistics"}

\* Number(apartment.price) of the text a numeric(10, 2) column gives back
Number == [t \in {"50.00", "-5.00"} |-> IF t = "50.00" THEN 50 ELSE 0 - 5]

\* the values form.reset is given: those of the order being edited (the prop
\* apartment and the ids of its employees) or, with no order, the defaults
defaultValues(apartment, employee_ids) ==
  [name |-> OrDefault(apartment.name, ""),
   cleaning_date |-> OrDefault(apartment.cleaning_date, ""),
   start_time |-> OrDefault(apartment.start_time, ""),
   status |-> OrDefault(apartment.status, "Da Fare"),
   payment_status |-> OrDefault(apartment.payment_status, "Da Pagare"),
   notes |-> OrDefault(apartment.notes, ""),
   employee_ids |-> employee_ids,
   price |-> IF apartment.price = Null THEN 0 ELSE Number[apartment.price]]

\* formSchema of the order modal
formSchema(values) ==
  /\ values.name # ""
  /\ values.cleaning_date # ""
  /\ values.status \in StatusEnum
  /\ values.payment_status \in PaymentStatusEnum
  /\ values.price >= 0

\* defaultValues and formSchema of the staff modal
employeeDefaultValues == [first_name |-> "", last_name |-> ""]
employeeFormSchema(values) == values.first_name # "" /\ values.last_name # ""

\* what the user may enter in the order form and in the staff form
EnteredValues ==
  { [name |-> "Villa", cleaning_date |-> "2024-12-31", start_time |-> "", status |-> "Fatto",
     payment_status |-> "Pagato", notes |-> "keys at the bar", employee_ids |-> <<>>, price |-> 50],
    [name |-> "", cleaning_date |-> "2024-12-31", start_time |-> "10:30", status |-> "Da Fare",
     payment_status |-> "Da Pagare", notes |-> "", employee_ids |-> <<>>, price |-> 0 - 5] }
EnteredEmployees ==
  { [first_name |-> "Marco", last_name |-> "Rossi"], [first_name |-> "Marco", last_name |-> ""] }

\* the responses fetch may resolve with for the order request; message is
\* the one of the JSON body, Null when the body is not JSON with a message
Responses ==
  { [status |-> 200, statusText |-> "OK", message |-> Null],
    [status |-> 400, statusText |-> "Bad Request", message |-> "Validation error: Required at \"name\""],
    [status |-> 500, statusText |-> "Internal Server Error", message |-> "Error updating apartment"],
    [status |-> 502, statusText |-> "Bad Gateway", message |-> Null] }
NoResponse == [status |-> 0, statusText |-> "", message |-> Null]

\* the message of the body ignored
throwIfResNotOk_StatusText(res) ==
  IF res.status \in 200..299 THEN <<>> ELSE <<res.status, ": ", res.statusText>>

\* throwIfResNotOk: the message of the error it throws, <<>> when it returns
throwIfResNotOk(res) ==
  IF res.status \in 200..299 THEN <<>>
  ELSE <<res.status, ": ", IF res.message \notin {Null, ""} THEN res.message ELSE res.statusText>>

\* isOpen, apartment: the props the page gives the order modal; form: the
\* values of its form; pending: submissions not yet answered; res: the last
\* answer received; toast: the notification shown last; stale: the cache
\* entries invalidated and not yet refetched; employees: the ids of the
\* cached list of employees, one checkbox each; isEmployeeModalOpen,
\* employeeForm: the staff modal
NoToast == [title |-> "", description |-> <<>>]
Closed ==
  [isOpen |-> FALSE, apartment |-> NoApartment, form |-> defaultValues(NoApartment, <<>>),
   pending |-> 0, res |-> NoResponse, toast |-> NoToast, stale |-> {}, employees |-> {},
   isEmployeeModalOpen |-> FALSE, employeeForm |-> employeeDefaultValues]

Tables ==
  /\ apartments = {}
  /\ employees = {}
  /\ assignments = NoRows
  /\ apartments_id_seq = 0
  /\ employees_id_seq = 0
  /\ req = [p \in Procs |-> Idle]
  /\ overlaps = 0
  /\ client = Closed

\* one account is registered
Init == Tables /\ users = {1}
\* two accounts are registered
InitAccounts == Tables /\ users = Users

\* a request arrives while no other is in flight
ArriveAlone(p) ==
  /\ AllIdle
  /\ CanStart(p)
  /\ Arrive(p)
  /\ UNCHANGED <<users, overlaps, client>>

\* a request arrives while another is between two of its statements
ArriveOverlapping(p) ==
  /\ \E q \in Procs : InFlight(q)
  /\ overlaps < MaxOverlaps
  /\ CanStart(p)
  /\ Arrive(p)
  /\ overlaps' = overlaps + 1
  /\ UNCHANGED <<users, client>>

Run(p) == Step(p) /\ UNCHANGED <<users, overlaps, client>>

\* the server: requests are handled independently and may overlap
Next == \E p \in Procs : ArriveAlone(p) \/ ArriveOverlapping(p) \/ Run(p)
Spec == Init /\ [][Next]_vars

\* one request at a time
NextSeq == \E p \in Procs : ArriveAlone(p) \/ Run(p)
SpecSeq == Init /\ [][NextSeq]_vars

\* one request at a time, issued by either of two accounts
SpecAccounts == InitAccounts /\ [][NextSeq]_vars

\* ------------------------------------------------------------------------
\* Requests whose storage calls may reject
\* ------------------------------------------------------------------------
\* error.message of a rejected update with nothing to set
SetErrors == {"No values to set", "syntax error at or near \"where\""}
ThemeBodies ==
  {[color |-> c] : c \in {NullText, <<"#", "2", "5", "6", "3", "e", "b">>, [i \in 1..51 |-> "f"]}}

ArriveRejected(p) ==
  /\ AllIdle
  /\ CanStart(p)
  /\ \E caller \in users :
       \/ \E route \in DOMAIN ErrorMessage : Rejected(p, caller, route)
       \/ \E body \in ThemeBodies, error \in SetErrors : PutTheme(p, caller, body, error)
  /\ UNCHANGED <<users, overlaps, client>>

RunReject(p) == Reject(p) /\ UNCHANGED <<users, overlaps, client>>

NextFailures == \E p \in Procs : ArriveAlone(p) \/ Run(p) \/ ArriveRejected(p) \/ RunReject(p)
SpecFailures == Init /\ [][NextFailures]_vars

\* ------------------------------------------------------------------------
\* Creates and updates with the date and the price a client may send
\* ------------------------------------------------------------------------
\* cleaning_date of a body: any JSON string
WrittenDates == {"2024-06-01", "2024-6-1"}
\* price of a body: absent, or any JSON string or number
WrittenPrices == {Null, "-5"}
WrittenFields ==
  { [name |-> "Flat 3B", cleaning_date |-> d, start_time |-> "09:00", status |-> Null,
     payment_status |-> Null, notes |-> Null, price |-> pr] :
    d \in WrittenDates, pr \in WrittenPrices }
FieldBodies ==
  {WithIds(f, ids) : f \in WrittenFields, ids \in {<<>>, <<1>>}}
    \cup {WithIds(BadApartmentFields, <<>>)}

\* no order is stored; one staff member is
InitFields ==
  /\ users = {1}
  /\ apartments = {}
  /\ employees = {[id |-> 1, first_name |-> "Anna", last_name |-> "Bianchi", user_id |-> 1]}
  /\ assignments = NoRows
  /\ apartments_id_seq = 0
  /\ employees_id_seq = 1
  /\ req = [p \in Procs |-> Idle]
  /\ overlaps = 0
  /\ client = Closed

ArriveFields(p) ==
  /\ AllIdle
  /\ CanStart(p)
  /\ \E caller \in users, body \in FieldBodies :
       \/ PostApartment(p, caller, body)
       \/ \E id \in 1..MaxApartmentId : PutApartment(p, caller, id, body)
  /\ UNCHANGED <<users, overlaps, client>>

NextFields == \E p \in Procs : ArriveFields(p) \/ Run(p)
SpecFields == InitFields /\ [][NextFields]_vars

\* ------------------------------------------------------------------------
\* The calendar queries over stored orders
\* ------------------------------------------------------------------------
\* the text a date input / a time input of the order form submits
IsoDate(y, m, d) ==
  padStart(toString(y), 4, "0") \o <<"-">> \o padStart(toString(m), 2, "0")
    \o <<"-">> \o padStart(toString(d), 2, "0")
IsoTime(h, m) ==
  padStart(toString(h), 2, "0") \o <<":">> \o padStart(toString(m), 2, "0")

DaFare == <<"D", "a", " ", "F", "a", "r", "e">>
DaPagare == <<"D", "a", " ", "P", "a", "g", "a", "r", "e">>

\* a row of apartments as a create with name, date and time leaves it
StoredOrder(id, name, date, time) ==
  [id |-> id, name |-> name, cleaning_date |-> date, start_time |-> time,
   status |-> DaFare, payment_status |-> DaPagare, notes |-> NullText,
   price |-> NullText, user_id |-> 1]

Flat == <<"F", "l", "a", "t">>

\* orders around the ends of months and years, several on one day
CalendarOrders ==
  { StoredOrder(1, Flat, IsoDate(2023, 12, 31), IsoTime(9, 0)),
    StoredOrder(2, Flat, IsoDate(2024, 1, 1), NullText),
    StoredOrder(3, Flat, IsoDate(2024, 1, 31), IsoTime(14, 30)),
    StoredOrder(4, Flat, IsoDate(2024, 2, 1), IsoTime(9, 0)),
    StoredOrder(5, Flat, IsoDate(2024, 12, 1), IsoTime(14, 30)),
    StoredOrder(6, Flat, IsoDate(2024, 12, 31), IsoTime(14, 30)),
    StoredOrder(7, Flat, IsoDate(2024, 12, 31), IsoTime(9, 0)),
    StoredOrder(8, Flat, IsoDate(2024, 12, 31), NullText),
    StoredOrder(9, Flat, IsoDate(2025, 1, 1), IsoTime(9, 0)),
    StoredOrder(10, Flat, IsoDate(999, 12, 15), IsoTime(9, 0)) }

Anna == [id |-> 1, first_name |-> "Anna", last_name |-> "Bianchi", user_id |-> 1]

YearParams == {<<"2", "0", "2", "3">>, <<"2", "0", "2", "4">>, <<"9", "9", "9">>, <<"x">>}
MonthParams == {<<"0">>, <<"1">>, <<"2">>, <<"1", "2">>, <<"1", "3">>, <<"2", "x">>}
DayParams == {<<"0">>, <<"1">>, <<"1", "5">>, <<"3", "0">>, <<"3", "1">>, <<"3", "2">>}

\* some of the orders are stored; the ones with an odd id have Anna assigned
InitCalendar ==
  /\ users = {1}
  /\ apartments \in {S \in SUBSET CalendarOrders : Cardinality(S) <= MaxOrders}
  /\ employees = {Anna}
  /\ assignments = [x \in {Pair(r.id, Anna.id) : r \in {a \in apartments : a.id % 2 = 1}} |-> 1]
  /\ apartments_id_seq = Cardinality(CalendarOrders)
  /\ employees_id_seq = Anna.id
  /\ req = [p \in Procs |-> Idle]
  /\ overlaps = 0
  /\ client = Closed

ArriveCalendar(p) ==
  /\ AllIdle
  /\ CanStart(p)
  /\ \E caller \in users :
       \/ \E y \in YearParams, m \in MonthParams : GetCalendarMonth(p, caller, y, m)
       \/ \E y \in YearParams, m \in MonthParams, d \in DayParams :
            GetCalendarDay(p, caller, y, m, d)
  /\ UNCHANGED <<users, overlaps, client>>

\* a list request in flight runs its next statement
RunList(p) == (ListEmployees(p) \/ Release(p)) /\ UNCHANGED <<users, overlaps, client>>

NextCalendar == \E p \in Procs : ArriveCalendar(p) \/ RunList(p)
SpecCalendar == InitCalendar /\ [][NextCalendar]_vars

\* ------------------------------------------------------------------------
\* The list query over stored orders
\* ------------------------------------------------------------------------
ListOrders ==
  { StoredOrder(1, <<"M", "a", "r", "i", "o">>, IsoDate(2024, 6, 1), IsoTime(9, 0)),
    [StoredOrder(2, <<"A", "n", "n", "a">>, IsoDate(2024, 12, 31), NullText) EXCEPT
       !.notes = <<"c", "a", "l", "l", " ", "M", "a", "r", "i", "o">>,
       !.status = <<"F", "a", "t", "t", "o">>, !.payment_status = <<"P", "a", "g", "a", "t", "o">>],
    [StoredOrder(3, <<"L", "u", "i", "g", "i">>, IsoDate(2023, 12, 31), IsoTime(14, 30)) EXCEPT
       !.status = <<"I", "n", " ", "C", "o", "r", "s", "o">>],
    [StoredOrder(4, <<"A", "n", "n", "a">>, IsoDate(2024, 6, 1), IsoTime(9, 0)) EXCEPT
       !.notes = <<"k", "e", "y", "s">>, !.payment_status = <<"P", "a", "g", "a", "t", "o">>],
    StoredOrder(5, <<"M", "a", "r", "i", "a">>, IsoDate(2025, 1, 1), NullText),
    StoredOrder(6, <<"Z", "o", "e">>, IsoDate(999, 12, 15), NullText) }

\* req.query.sortBy: absent, "name", or something else
SortByParams == {Null, "name", "date", "NAME"}
\* req.query.search: absent, empty, or a term
SearchParams ==
  { NullText, <<>>, <<"M", "a", "r">>, <<"m", "a", "r">>, <<"P", "a", "g", "a">>,
    <<"f", "a", "t", "t", "o">>, <<"k", "e", "y", "s">>, <<"_">> }

\* some of the orders are stored; the ones with an odd id have Anna assigned
InitList ==
  /\ users = {1}
  /\ apartments \in {S \in SUBSET ListOrders : Cardinality(S) <= MaxOrders}
  /\ employees = {Anna}
  /\ assignments = [x \in {Pair(r.id, Anna.id) : r \in {a \in apartments : a.id % 2 = 1}} |-> 1]
  /\ apartments_id_seq = Cardinality(ListOrders)
  /\ employees_id_seq = Anna.id
  /\ req = [p \in Procs |-> Idle]
  /\ overlaps = 0
  /\ client = Closed

ArriveList(p) ==
  /\ AllIdle
  /\ CanStart(p)
  /\ \E caller \in users, sortBy \in SortByParams, search \in SearchParams :
       GetApartmentsRoute(p, caller, sortBy, search)
  /\ UNCHANGED <<users, overlaps, client>>

NextList == \E p \in Procs : ArriveList(p) \/ RunList(p)
SpecList == InitList /\ [][NextList]_vars

\* ------------------------------------------------------------------------
\* Statistics over stored orders, staff and assignments
\* ------------------------------------------------------------------------
\* three orders on one day, two on the next, one on each of two more
StatOrders ==
  { StoredOrder(1, Flat, IsoDate(2024, 6, 1), NullText),
    StoredOrder(2, Flat, IsoDate(2024, 6, 1), NullText),
    StoredOrder(3, Flat, IsoDate(2024, 6, 1), NullText),
    StoredOrder(4, Flat, IsoDate(2024, 6, 2), NullText),
    StoredOrder(5, Flat, IsoDate(2024, 6, 2), NullText),
    StoredOrder(6, Flat, IsoDate(2024, 6, 3), NullText),
    StoredOrder(7, Flat, IsoDate(2024, 6, 4), NullText) }

StatEmployees ==
  { [id |-> 1, first_name |-> "Anna", last_name |-> "Bianchi", user_id |-> 1],
    [id |-> 2, first_name |-> "Bruno", last_name |-> "Rossi", user_id |-> 1],
    [id |-> 3, first_name |-> "Carla", last_name |-> "Rossi", user_id |-> 1],
    [id |-> 4, first_name |-> "Dario", last_name |-> "Verdi", user_id |-> 1],
    [id |-> 5, first_name |-> "Elena", last_name |-> "Neri", user_id |-> 1] }

\* the staff each of the orders has assigned when it is stored
Staffing == <<{1, 2, 3, 4}, {1, 2, 3}, {1, 2}, {1}, {4}, {}, {2, 4}>>

\* some of the orders are stored, each with its staff assigned
InitStatistics ==
  /\ users = {1}
  /\ apartments \in {S \in SUBSET StatOrders : Cardinality(S) <= MaxOrders}
  /\ employees = StatEmployees
  /\ assignments = [x \in UNION {{Pair(a.id, e) : e \in Staffing[a.id]} : a \in apartments} |-> 1]
  /\ apartments_id_seq = Cardinality(StatOrders)
  /\ employees_id_seq = Cardinality(StatEmployees)
  /\ req = [p \in Procs |-> Idle]
  /\ overlaps = 0
  /\ client = Closed

ArriveStatistics(p) ==
  /\ AllIdle
  /\ CanStart(p)
  /\ \E caller \in users : GetStatistics(p, caller)
  /\ UNCHANGED <<users, overlaps, client>>

RunStatistics(p) ==
  (StatTopEmployees(p) \/ StatBusiestDays(p) \/ Release(p)) /\ UNCHANGED <<users, overlaps, client>>

NextStatistics == \E p \in Procs : ArriveStatistics(p) \/ RunStatistics(p)
SpecStatistics == InitStatistics /\ [][NextStatistics]_vars

\* ------------------------------------------------------------------------
\* The order modal and the staff modal at work
\* ------------------------------------------------------------------------
\* The page opens the order modal, to create (no apartment) or to edit a
\* stored order; the effect on isOpen resets the form.
OpenModal(apartment) ==
  /\ ~client.isOpen
  /\ \E l \in Listings(DOMAIN getEmployeesForApartment(apartment.id)) :
       client' = [client EXCEPT
                    !.isOpen = TRUE, !.apartment = apartment,
                    !.form = defaultValues(apartment, [k \in 1..Len(l) |-> l[k].id])]
  /\ UNCHANGED server

\* The page closes the order modal. ApartmentModal then renders nothing: the
\* EmployeeModal inside it is unmounted and its form state is dropped.
onClose(c) == [c EXCEPT !.isOpen = FALSE, !.employeeForm = employeeDefaultValues]

\* the X or ANNULLA of the order modal (the staff modal, when open, covers them)
CloseModal ==
  /\ client.isOpen /\ ~client.isEmployeeModalOpen
  /\ client' = onClose(client)
  /\ UNCHANGED server

\* the user edits the inputs and selects of the order form
Change(values) ==
  /\ client.isOpen /\ ~client.isEmployeeModalOpen
  /\ client' = [client EXCEPT !.form = [values EXCEPT !.employee_ids = client.form.employee_ids]]
  /\ UNCHANGED server

\* the user clicks the checkbox of an employee: it is shown checked when the
\* id is in the list, and the click reports the opposite
onCheckedChange(id) ==
  /\ client.isOpen /\ ~client.isEmployeeModalOpen
  /\ LET value == client.form.employee_ids
         checked == id \notin Range(value)
     IN client' = [client EXCEPT
                     !.form.employee_ids =
                        IF checked THEN Append(value, id)
                        ELSE SelectSeq(value, LAMBDA v : v # id)]
  /\ UNCHANGED server

\* SALVA / CREA: handleSubmit validates, then mutation.mutate(values) sends
\* the request
onSubmit ==
  /\ client.isOpen /\ ~client.isEmployeeModalOpen
  /\ formSchema(client.form)
  /\ client.pending < MaxPending
  /\ client' = [client EXCEPT !.pending = client.pending + 1]
  /\ UNCHANGED server

\* the statistics left out
InvalidatedOnSuccess_NoStatistics == {"/api/apartments", "/api/calendar"}

\* the query keys onSuccess invalidates
InvalidatedOnSuccess == {"/api/apartments", "/api/calendar", "/api/statistics"}

\* the request is answered: apiRequest throws or returns, and the mutation
\* runs onError or onSuccess
Settle(res) ==
  /\ client.pending > 0
  /\ LET error == throwIfResNotOk(res)
         c == [client EXCEPT !.pending = client.pending - 1, !.res = res]
         done == IF client.apartment = NoApartment THEN "creato" ELSE "aggiornato"
     IN client' =
          IF error # <<>>
          THEN [c EXCEPT !.toast = [title |-> "Errore", description |-> error]]
          ELSE [onClose(c) EXCEPT
                  !.toast = [title |-> "Ordine",
                             description |-> <<"L'ordine e' stato ", done, " con successo.">>],
                  !.stale = c.stale \cup InvalidatedOnSuccess]
  /\ UNCHANGED server

\* Nuovo Cliente: setIsEmployeeModalOpen(true)
OpenEmployeeModal ==
  /\ client.isOpen /\ ~client.isEmployeeModalOpen
  /\ client' = [client EXCEPT !.isEmployeeModalOpen = TRUE]
  /\ UNCHANGED server

\* the X or ANNULLA of the staff modal
CloseEmployeeModal ==
  /\ client.isOpen /\ client.isEmployeeModalOpen
  /\ client' = [client EXCEPT !.isEmployeeModalOpen = FALSE]
  /\ UNCHANGED server

\* the user edits the inputs of the staff form
ChangeEmployee(values) ==
  /\ client.isOpen /\ client.isEmployeeModalOpen
  /\ client' = [client EXCEPT !.employeeForm = values]
  /\ UNCHANGED server

\* CREA of the staff modal: handleSubmit validates, createEmployeeMutation
\* sends POST /api/employees, and the server creates the row or fails; one
\* creation is in flight at a time
handleEmployeeSubmit(p) ==
  /\ client.isOpen /\ client.isEmployeeModalOpen
  /\ employeeFormSchema(client.employeeForm)
  /\ AllIdle /\ CanStart(p)
  /\ \E caller \in users :
       \/ PostEmployee(p, caller, client.employeeForm)
       \/ Rejected(p, caller, "POST /employees") /\ UNCHANGED db
  /\ UNCHANGED <<users, overlaps, client>>

\* the answer to POST /api/employees: onSuccess invalidates every query,
\* closes the staff modal and adds the new id to the selection; onError
\* shows the error
EmployeeSettled(p) ==
  /\ req[p].pc = "done" /\ req[p].route = "POST /employees"
  /\ LET r == req[p]
         error == throwIfResNotOk([status |-> r.status, statusText |-> "", message |-> r.json.message])
         currentEmployeeIds == client.form.employee_ids
     IN client' =
          IF error # <<>>
          THEN [client EXCEPT
                  !.toast = [title |-> "Errore",
                             description |-> <<"Errore durante la creazione: ">> \o error]]
          ELSE [client EXCEPT
                  !.stale = QueryKeys,
                  !.toast = [title |-> "Successo", description |-> <<"Cliente creato con successo">>],
                  !.isEmployeeModalOpen = FALSE,
                  !.form.employee_ids = Append(currentEmployeeIds, r.employee.id)]
  /\ req' = [req EXCEPT ![p] = Idle]
  /\ UNCHANGED <<db, users, overlaps>>

\* the queries are fetched again: after an invalidation, or when the window
\* gets the focus back (the default of a QueryClient)
Refetch ==
  /\ client.stale # {} \/ client.employees # {e.id : e \in employees}
  /\ client' = [client EXCEPT !.stale = {}, !.employees = {e.id : e \in employees}]
  /\ UNCHANGED server

\* two orders are stored, one of them with the one staff member, and the
\* page has loaded the list of employees
InitModal ==
  /\ users = {1}
  /\ apartments =
       {InsertedApartment(WithIds(f, <<>>), 1, 1) : f \in NewApartmentFields}
         \cup {InsertedApartment(WithIds(f, <<>>), 2, 1) : f \in EditedApartmentFields}
  /\ employees = {Anna}
  /\ assignments = AddRow(NoRows, Pair(1, Anna.id))
  /\ apartments_id_seq = 2
  /\ employees_id_seq = Anna.id
  /\ req = [p \in Procs |-> Idle]
  /\ overlaps = 0
  /\ client = [Closed EXCEPT !.employees = {Anna.id}]

NextModal ==
  \/ \E apartment \in apartments \cup {NoApartment} : OpenModal(apartment)
  \/ CloseModal
  \/ \E values \in EnteredValues : Change(values)
  \/ \E id \in client.employees : onCheckedChange(id)
  \/ onSubmit
  \/ \E res \in Responses : Settle(res)
  \/ OpenEmployeeModal
  \/ CloseEmployeeModal
  \/ \E values \in EnteredEmployees : ChangeEmployee(values)
  \/ \E p \in Procs : handleEmployeeSubmit(p)
  \/ \E p \in Procs : EmployeeSettled(p)
  \/ Refetch
SpecModal == InitModal /\ [][NextModal]_vars

\* ------------------------------------------------------------------------
\* Properties
\* ------------------------------------------------------------------------
Answered(p, route) == req[p].pc = "done" /\ req[p].route = route
EmployeeIds == {e.id : e \in employees}
HasDuplicates(ids) == Cardinality(Range(ids)) < Len(ids)
\* the fields of a stored row are the ones the body provided
SameFields(row, body) ==
  /\ row.name = body.name
  /\ row.cleaning_date = body.cleaning_date
  /\ row.start_time = body.start_time
  /\ body.status # Null => row.status = body.status
  /\ body.payment_status # Null => row.payment_status = body.payment_status
  /\ row.notes = body.notes
  /\ row.price = NumericText[body.price]
\* what getApartment(id) returns when nothing runs between its two statements
GetApartmentReturns(id, body, ids) ==
  /\ \E row \in ApartmentRows(id) : SameFields(row, body)
  /\ {e.id : e \in DOMAIN getEmployeesForApartment(id)} = ids
  /\ \A e \in DOMAIN getEmployeesForApartment(id) : getEmployeesForApartment(id)[e] = 1

\* C1: every createOrder(fields, staffIds) call with ids of existing staff
\* returns an order, and getOrder on the returned id right afterwards gives
\* the fields provided and exactly the set of ids of staffIds, whatever their
\* order, a repeated id counting once.
C1_CreateThenGet ==
  \A p \in Procs :
    (/\ Answered(p, "POST /apartments")
     /\ apartmentWithEmployeesSchema(req[p].body)
     /\ Range(req[p].body.employee_ids) \subseteq EmployeeIds)
    => /\ req[p].status = 201
       /\ GetApartmentReturns(req[p].id, req[p].body, Range(req[p].body.employee_ids))

\* C2: after a successful updateOrder(id, fields, staffIds) the order's
\* assignment set is exactly the set of ids of staffIds, whatever it was
\* before, and so is the staff list of the response and of a following
\* getOrder(id); with an empty list both are empty.
C2_UpdateReplaces ==
  \A p \in Procs :
    (Answered(p, "PUT /apartments/:id") /\ req[p].status = 200)
    => /\ AssignedIds(req[p].id) = Range(req[p].body.employee_ids)
       /\ {e.id : e \in DOMAIN req[p].employees} = Range(req[p].body.employee_ids)
       /\ {e.id : e \in DOMAIN getEmployeesForApartment(req[p].id)}
            = Range(req[p].body.employee_ids)

\* an update with an empty list has answered 200 for an order that had staff
C2_Witness ==
  \E p \in Procs :
    /\ Answered(p, "PUT /apartments/:id")
    /\ req[p].status = 200
    /\ req[p].before # {}
    /\ req[p].body.employee_ids = <<>>
    /\ req[p].employees = NoRows

\* C3: while an updateOrder replaces a non-empty staff set of an order by a
\* non-empty one, no concurrent getOrder of that order is answered with an
\* empty staff list.
C3_NoEmptyWindow ==
  \A p, q \in Procs :
    (/\ InFlight(p)
     /\ req[p].route = "PUT /apartments/:id"
     /\ req[p].before # {}
     /\ req[p].before \subseteq EmployeeIds
     /\ req[p].body.employee_ids # <<>>
     /\ ~HasDuplicates(req[p].body.employee_ids)
     /\ Range(req[p].body.employee_ids) \subseteq EmployeeIds
     /\ Answered(q, "GET /apartments/:id")
     /\ req[q].id = req[p].id
     /\ req[q].status = 200)
    => req[q].employees # NoRows

\* C4: when two overlapping updateOrder calls on one order, with staff sets
\* S1 and S2 of existing staff, have both finished, both have succeeded and
\* the order's assignment set is S1 or S2.
C4_LastWriteWins ==
  \A p, q \in Procs :
    (/\ p # q
     /\ Answered(p, "PUT /apartments/:id")
     /\ Answered(q, "PUT /apartments/:id")
     /\ req[p].id = req[q].id
     /\ ApartmentRows(req[p].id) # {}
     /\ \A r \in {p, q} :
          /\ apartmentWithEmployeesSchema(req[r].body)
          /\ ~HasDuplicates(req[r].body.employee_ids)
          /\ Range(req[r].body.employee_ids) \subseteq EmployeeIds)
    => /\ req[p].status = 200
       /\ req[q].status = 200
       /\ AssignedIds(req[p].id) \in
            {Range(req[p].body.employee_ids), Range(req[q].body.employee_ids)}

\* C5: no two assignment rows have the same (order, staff) pair, and no
\* staff list of a response names a staff member twice.
C5_UniquePairs ==
  /\ \A x \in DOMAIN assignments : assignments[x] = 1
  /\ \A p \in Procs :
       req[p].pc = "done" => \A e \in DOMAIN req[p].employees : req[p].employees[e] = 1

\* a request whose list names one staff member twice has been refused at the
\* second insert, the pair being stored once
C5_Witness ==
  \E p \in Procs :
    /\ req[p].pc = "done"
    /\ req[p].status = 500
    /\ Len(req[p].body.employee_ids) = 2
    /\ req[p].body.employee_ids[1] = req[p].body.employee_ids[2]
    /\ Pair(req[p].id, req[p].body.employee_ids[1]) \in DOMAIN assignments

\* C6: every assignment row refers to an order that exists and to a staff
\* member that exists.
C6_NoDanglingAssignments ==
  \A x \in DOMAIN assignments :
    /\ ApartmentRows(x.apartment_id) # {}
    /\ EmployeeRows(x.employee_id) # {}

\* a staff member that was assigned to an order has been deleted while
\* another one is still assigned
C6_Witness ==
  \E p \in Procs :
    /\ Answered(p, "DELETE /employees/:id")
    /\ req[p].status = 204
    /\ req[p].before # {}
    /\ DOMAIN assignments # {}

\* C7: deleteStaff(s) deletes the staff row s and the assignments of s, and
\* nothing else: the orders and their fields are the same before and after,
\* and every order keeps its other staff.
C7_DeleteEmployeeFrame ==
  [][\A p \in Procs :
       (/\ req[p].pc = "idle"
        /\ req'[p].pc = "done"
        /\ req'[p].route = "DELETE /employees/:id"
        /\ req'[p].status = 204)
       => /\ apartments' = apartments
          /\ employees' = {e \in employees : e.id # req'[p].id}
          /\ \A a \in 1..MaxApartmentId :
               AssignedIds(a)' = AssignedIds(a) \ {req'[p].id}
          /\ \A x \in DOMAIN assignments' : assignments'[x] = assignments[x]]_vars

\* a staff member assigned to every order has been deleted, the orders are
\* all still there and one of them still has staff
C7_Witness ==
  \E p \in Procs :
    /\ Answered(p, "DELETE /employees/:id")
    /\ req[p].status = 204
    /\ Cardinality(req[p].before) = MaxApartmentId
    /\ Cardinality(apartments) = MaxApartmentId
    /\ DOMAIN assignments # {}

\* C8: an account reads only its own records: getOrder answered with a
\* record means the record is owned by the caller.
C8_AccountIsolation ==
  \A p \in Procs :
    (Answered(p, "GET /apartments/:id") /\ req[p].status = 200)
    => req[p].apartment.user_id = req[p].caller

\* C9: a createOrder whose list names one staff member more than once either
\* stores the order with that staff member assigned once, or is rejected and
\* leaves no order row and no assignment row of its own.
C9_DuplicateIdsAllOrNothing ==
  \A p \in Procs :
    (/\ Answered(p, "POST /apartments")
     /\ apartmentWithEmployeesSchema(req[p].body)
     /\ HasDuplicates(req[p].body.employee_ids))
    => \/ /\ req[p].status = 201
          /\ GetApartmentReturns(req[p].id, req[p].body, Range(req[p].body.employee_ids))
       \/ /\ req[p].status # 201
          /\ ApartmentRows(req[p].id) = {}
          /\ AssignedIds(req[p].id) = {}

\* C10: PUT /orders/:id for an id no order has is answered 404, with an
\* empty and with a non-empty staff list.
C10_UpdateMissingIs404 ==
  \A p \in Procs :
    (/\ Answered(p, "PUT /apartments/:id")
     /\ req[p].id # NaN
     /\ apartmentWithEmployeesSchema(req[p].body)
     /\ ApartmentRows(req[p].id) = {})
    => req[p].status = 404

\* C11: a POST /apartments, PUT /apartments/:id or POST /employees request
\* whose body lacks a required field is answered 400 at once, and the
\* tables are the same before and after the request.
C11_InvalidBodyIs400 ==
  [][\A p \in Procs :
       (/\ req[p].pc = "idle"
        /\ req'[p].pc # "idle"
        /\ \/ /\ req'[p].route \in {"POST /apartments", "PUT /apartments/:id"}
              /\ req'[p].body.name = Null
           \/ /\ req'[p].route = "POST /employees"
              /\ req'[p].emp.first_name = Null)
       => /\ req'[p].pc = "done"
          /\ req'[p].status = 400
          /\ db' = db]_vars

\* an update without a name has been answered 400 for an order that has
\* staff assigned
C11_Witness ==
  \E p \in Procs :
    /\ Answered(p, "PUT /apartments/:id")
    /\ req[p].status = 400
    /\ req[p].body.name = Null
    /\ AssignedIds(req[p].id) # {}

\* the number a text of digits writes
RECURSIVE Numeral(_)
Numeral(t) ==
  IF t = <<>> THEN 0 ELSE 10 * Numeral(SubSeq(t, 1, Len(t) - 1)) + (CharCode(t[Len(t)]) - 48)
\* the calendar date <<year, month, day>> a stored YYYY-MM-DD text writes
DateOf(t) == <<Numeral(SubSeq(t, 1, 4)), Numeral(SubSeq(t, 6, 7)), Numeral(SubSeq(t, 9, 10))>>
\* date a is no later than date b
DateLeq(a, b) ==
  \/ a[1] < b[1]
  \/ a[1] = b[1] /\ a[2] < b[2]
  \/ a[1] = b[1] /\ a[2] = b[2] /\ a[3] <= b[3]
FirstDay(year, month) == <<year, month, 1>>
FirstDayOfNext(year, month) == IF month = 12 THEN <<year + 1, 1, 1>> ELSE <<year, month + 1, 1>>

\* C12: for every year and every month in 1..12, ordersByMonth(year, month)
\* returns exactly the orders whose date d has first day of the month <= d <
\* first day of the next month, January of year + 1 following December.
C12_OrdersByMonth ==
  \A p \in Procs :
    (Answered(p, "GET /calendar/:year/:month") /\ req[p].status = 200)
    => Range(req[p].query.list) =
         {a \in apartments :
            /\ DateLeq(FirstDay(req[p].query.year, req[p].query.month), DateOf(a.cleaning_date))
            /\ ~DateLeq(FirstDayOfNext(req[p].query.year, req[p].query.month), DateOf(a.cleaning_date))}

\* the minute of the day a stored HH:MM text writes
TimeOf(t) == 60 * Numeral(SubSeq(t, 1, 2)) + Numeral(SubSeq(t, 4, 5))

\* C13: ordersByDate(year, month, day) returns exactly the orders whose date
\* is that calendar date, and returns them in ascending order of start time.
C13_OrdersByDate ==
  \A p \in Procs :
    (Answered(p, "GET /calendar/:year/:month/:day") /\ req[p].status = 200)
    => /\ Range(req[p].query.list) =
            {a \in apartments : DateOf(a.cleaning_date) = <<req[p].query.year, req[p].query.month, req[p].query.day>>}
       /\ \A i, j \in 1..Len(req[p].query.list) :
            (/\ i < j
             /\ req[p].query.list[i].start_time # NullText
             /\ req[p].query.list[j].start_time # NullText)
            => TimeOf(req[p].query.list[i].start_time) <= TimeOf(req[p].query.list[j].start_time)

\* a path parameter that writes an integer
IsInteger(t) == t # <<>> /\ \A k \in 1..Len(t) : IsDigit(t[k])
IsLeapYear(y) == (y % 4 = 0 /\ y % 100 # 0) \/ y % 400 = 0
DaysInMonth(y, m) ==
  IF m = 2 THEN (IF IsLeapYear(y) THEN 29 ELSE 28)
  ELSE IF m \in {4, 6, 9, 11} THEN 30 ELSE 31
ValidYearMonth(params) ==
  /\ IsInteger(params[1])
  /\ IsInteger(params[2])
  /\ Numeral(params[2]) \in 1..12
ValidDay(params) ==
  /\ ValidYearMonth(params)
  /\ IsInteger(params[3])
  /\ Numeral(params[3]) \in 1..DaysInMonth(Numeral(params[1]), Numeral(params[2]))

\* the place of a letter in the alphabet, capital or small
LetterOf(c) ==
  IF c \in Range(UpperChars) THEN IndexOf(UpperChars, c) ELSE IndexOf(LowerChars, c)
\* name s comes no later than name t in alphabetical order
RECURSIVE AlphaLeq(_, _)
AlphaLeq(s, t) ==
  IF s = <<>> THEN TRUE
  ELSE IF t = <<>> THEN FALSE
  ELSE IF LetterOf(Head(s)) # LetterOf(Head(t)) THEN LetterOf(Head(s)) < LetterOf(Head(t))
  ELSE AlphaLeq(Tail(s), Tail(t))

\* C14: listOrders returns its result sorted by date descending, except
\* when sortBy is exactly "name": then it is sorted by name ascending.
C14_ListOrder ==
  \A p \in Procs :
    (Answered(p, "GET /apartments") /\ req[p].status = 200)
    => \A i, j \in 1..Len(req[p].query.list) :
         i < j =>
           IF req[p].query.params[1] = "name"
           THEN AlphaLeq(req[p].query.list[i].name, req[p].query.list[j].name)
           ELSE DateLeq(DateOf(req[p].query.list[j].cleaning_date), DateOf(req[p].query.list[i].cleaning_date))

\* a list asked with a sortBy other than "name" has been answered with
\* three orders of three dates, whose names are not in alphabetical order
C14_Witness ==
  \E p \in Procs :
    /\ Answered(p, "GET /apartments")
    /\ req[p].query.params[1] = "NAME"
    /\ Len(req[p].query.list) = 3
    /\ Cardinality({a.cleaning_date : a \in Range(req[p].query.list)}) = 3
    /\ ~AlphaLeq(req[p].query.list[1].name, req[p].query.list[2].name)

\* the small letter of a letter
LowerOf(c) == IF c \in Range(UpperChars) THEN LowerChars[IndexOf(UpperChars, c)] ELSE c
\* text t has term as a substring, capitals and small letters taken as equal
ContainsIgnoreCase(t, term) ==
  \E k \in 0..(Len(t) - Len(term)) :
    \A n \in 1..Len(term) : LowerOf(t[k + n]) = LowerOf(term[n])

\* C15: listOrders with a non-empty search term returns exactly the orders
\* of which name, notes, status or payment_status contains the term as a
\* substring, compared case-insensitively; absent notes do not match.
C15_SearchIgnoresCase ==
  \A p \in Procs :
    (/\ Answered(p, "GET /apartments")
     /\ req[p].status = 200
     /\ req[p].query.params[2] \notin {NullText, <<>>})
    => Range(req[p].query.list) =
         {a \in apartments :
            \E column \in {a.name, a.notes, a.status, a.payment_status} :
              column # NullText /\ ContainsIgnoreCase(column, req[p].query.params[2])}

\* the number of stored orders on the date a text writes
OrdersOn(date) == Cardinality({a \in apartments : DateOf(a.cleaning_date) = DateOf(date)})

\* C16: statistics() returns in busiestDays at most three dates, each with
\* the number of orders on that date as its count, listed by non-increasing
\* count; no date left out has more orders than a date listed; three orders
\* on one date give that date with count 3.
C16_BusiestDays ==
  \A p \in Procs :
    (Answered(p, "GET /statistics") /\ req[p].status = 200)
    => LET days == req[p].query.stats.busiestDays
           listed == {days[k].date : k \in 1..Len(days)}
       IN /\ Len(days) <= 3
          /\ Cardinality(listed) = Len(days)
          /\ \A k \in 1..Len(days) : days[k].count = OrdersOn(days[k].date) /\ days[k].count > 0
          /\ \A i, j \in 1..Len(days) : i < j => days[i].count >= days[j].count
          /\ \A a \in apartments :
               a.cleaning_date \notin listed
               => /\ Len(days) = 3
                  /\ \A k \in 1..Len(days) : OrdersOn(a.cleaning_date) <= days[k].count
          /\ (Cardinality(apartments) = 3 /\ \E a \in apartments : OrdersOn(a.cleaning_date) = 3)
               => \E a \in apartments : days = <<[date |-> a.cleaning_date, count |-> 3]>>

\* statistics has listed three dates, the first one with two orders, and
\* left a fourth date out
C16_Witness ==
  \E p \in Procs :
    /\ Answered(p, "GET /statistics")
    /\ Len(req[p].query.stats.busiestDays) = 3
    /\ req[p].query.stats.busiestDays[1].count = 2
    /\ \E a \in apartments :
         \A k \in 1..3 : req[p].query.stats.busiestDays[k].date # a.cleaning_date

\* the number of assignment rows of a staff member
AssignmentsOf(id) == Cardinality({x \in DOMAIN assignments : x.employee_id = id})

\* C17: statistics() returns in topEmployees at most three staff members,
\* each with the number of its assignments as its count, listed by
\* non-increasing count; no staff member left out has more assignments than
\* one listed; staff with no assignment are not listed.
C17_TopEmployees ==
  \A p \in Procs :
    (Answered(p, "GET /statistics") /\ req[p].status = 200)
    => LET result == req[p].query.stats.topEmployeesResult
           top == req[p].query.stats.topEmployees
           listed == {result[k].employee_id : k \in 1..Len(result)}
       IN /\ Len(top) <= 3
          /\ Len(top) = Len(result)
          /\ Cardinality(listed) = Len(result)
          /\ \A k \in 1..Len(top) :
               /\ \E e \in EmployeeRows(result[k].employee_id) :
                    top[k].name = <<e.first_name, e.last_name>>
               /\ top[k].count = AssignmentsOf(result[k].employee_id)
               /\ top[k].count > 0
          /\ \A i, j \in 1..Len(top) : i < j => top[i].count >= top[j].count
          /\ \A e \in employees :
               (e.id \notin listed /\ AssignmentsOf(e.id) > 0)
               => /\ Len(top) = 3
                  /\ \A k \in 1..Len(top) : AssignmentsOf(e.id) <= top[k].count

\* statistics has listed three staff members and left out one that has an
\* assignment and one that has none
C17_Witness ==
  \E p \in Procs :
    /\ Answered(p, "GET /statistics")
    /\ Len(req[p].query.stats.topEmployees) = 3
    /\ \E e, f \in employees :
         /\ \A k \in 1..3 : req[p].query.stats.topEmployeesResult[k].employee_id \notin {e.id, f.id}
         /\ AssignmentsOf(e.id) > 0
         /\ AssignmentsOf(f.id) = 0

\* the characters of the texts that get stored as date or price
Chars ==
  [t \in {"2024-06-01", "2024-6-1", "-5.00"} |->
     IF t = "2024-06-01" THEN <<"2", "0", "2", "4", "-", "0", "6", "-", "0", "1">>
     ELSE IF t = "2024-6-1" THEN <<"2", "0", "2", "4", "-", "6", "-", "1">>
     ELSE <<"-", "5", ".", "0", "0">>]

\* C18: the price of every stored order is absent or non-negative.
C18_PriceNonNegative ==
  \A a \in apartments : a.price = Null \/ Head(Chars[a.price]) # "-"

\* text t is a calendar date written YYYY-MM-DD
IsIsoDate(t) ==
  /\ Len(t) = 10
  /\ \A k \in {1, 2, 3, 4, 6, 7, 9, 10} : IsDigit(t[k])
  /\ t[5] = "-"
  /\ t[8] = "-"
  /\ DateOf(t)[2] \in 1..12
  /\ DateOf(t)[3] \in 1..DaysInMonth(DateOf(t)[1], DateOf(t)[2])

\* C19: the date of every stored order is a text of the form YYYY-MM-DD.
C19_DateIsIso ==
  \A a \in apartments : IsIsoDate(Chars[a.cleaning_date])

\* C20: GET /calendar/:year/:month is answered 400, no query run, unless year
\* is an integer and month is in 1..12; GET /calendar/:year/:month/:day is
\* answered 400 unless in addition day is a day of that month.
C20_InvalidDatePartsAre400 ==
  \A p \in Procs :
    /\ (Answered(p, "GET /calendar/:year/:month") /\ ~ValidYearMonth(req[p].query.params))
         => (req[p].status = 400 /\ req[p].query.list = <<>>)
    /\ (Answered(p, "GET /calendar/:year/:month/:day") /\ ~ValidDay(req[p].query.params))
         => (req[p].status = 400 /\ req[p].query.list = <<>>)

\* ------------------------------------------------------------------------
\* C21: a request that is answered 500 carries the fixed message of its route
\* and nothing else: no field of the body is the text of the error that was
\* thrown.
\* ------------------------------------------------------------------------
C21_NoErrorTextIn500 ==
  \A p \in Procs :
    (req[p].pc = "done" /\ req[p].status = 500) =>
      /\ \A f \in DOMAIN req[p].json : req[p].json[f] \notin SetErrors
      /\ req[p].json.details = Null
      /\ req[p].json.message # Null \/ req[p].json.error # Null

\* ------------------------------------------------------------------------
\* C25: a getOrder that overlaps an updateOrder of the same order (valid body,
\* existing staff, no id twice) is answered with the staff set the order had
\* before the update or with the staff set of the update, and with the staff
\* set it had before whenever the fields it returns are not those of the
\* update.
\* ------------------------------------------------------------------------
C25_NoMixedView ==
  \A p, q \in Procs :
    (/\ p # q
     /\ req[p].pc # "idle"
     /\ req[p].route = "PUT /apartments/:id"
     /\ apartmentWithEmployeesSchema(req[p].body)
     /\ ~HasDuplicates(req[p].body.employee_ids)
     /\ Range(req[p].body.employee_ids) \subseteq EmployeeIds
     /\ req[p].before \subseteq EmployeeIds
     /\ Answered(q, "GET /apartments/:id")
     /\ req[q].id = req[p].id
     /\ req[q].status = 200)
    => LET staff == {e.id : e \in DOMAIN req[q].employees}
       IN /\ staff \in {req[p].before, Range(req[p].body.employee_ids)}
          /\ UpdatedApartment(req[q].apartment, req[p].body) # req[q].apartment
               => staff = req[p].before

\* ------------------------------------------------------------------------
\* C26: when a POST /apartments with a valid body has been answered 500, the
\* order row it inserted and the assignment rows it inserted are stored no
\* longer.
\* ------------------------------------------------------------------------
C26_CreateAllOrNothing ==
  \A p \in Procs :
    (/\ Answered(p, "POST /apartments")
     /\ req[p].status = 500)
    => /\ ApartmentRows(req[p].id) = {}
       /\ AssignedIds(req[p].id) = {}

\* ------------------------------------------------------------------------
\* C27: whenever getEmployee(s) is answered, an order o is among its
\* apartments iff s is among the employees getApartment(o) would return iff
\* an assignment row (o, s) is stored; and the same the other way round
\* whenever getApartment(o) is answered.
\* ------------------------------------------------------------------------
C27_JoinsAgree ==
  \A p \in Procs :
    /\ (Answered(p, "GET /employees/:id") /\ req[p].status = 200) =>
         \A o \in 1..MaxApartmentId :
           LET inStaff == o \in {a.id : a \in DOMAIN req[p].query.list}
               inOrder == /\ ApartmentRows(o) # {}
                          /\ req[p].id \in {e.id : e \in DOMAIN getEmployeesForApartment(o)}
           IN /\ inStaff <=> inOrder
              /\ inStaff <=> Pair(o, req[p].id) \in DOMAIN assignments
    /\ (Answered(p, "GET /apartments/:id") /\ req[p].status = 200) =>
         \A s \in 1..MaxEmployeeId :
           LET inOrder == s \in {e.id : e \in DOMAIN req[p].employees}
               inStaff == /\ EmployeeRows(s) # {}
                          /\ req[p].id \in {a.id : a \in DOMAIN getApartmentsForEmployee(s)}
           IN /\ inOrder <=> inStaff
              /\ inOrder <=> Pair(req[p].id, s) \in DOMAIN assignments

\* a staff member linked to one order of two has been fetched, and the order
\* that is not linked to anybody is not in the answer
C27_Witness ==
  \E p \in Procs :
    /\ Answered(p, "GET /employees/:id")
    /\ req[p].status = 200
    /\ Cardinality(DOMAIN req[p].query.list) = 1
    /\ Cardinality(apartments) = 2
    /\ \E a \in DOMAIN req[p].query.list :
         req[p].employee.id \in {e.id : e \in DOMAIN getEmployeesForApartment(a.id)}

\* ------------------------------------------------------------------------
\* C28: no step of a PUT /apartments/:id or of a DELETE /apartments/:id
\* changes a row of another order, an assignment row of another order, or a
\* row of employees.
\* ------------------------------------------------------------------------
C28_OrderFrame ==
  [][\A p \in Procs :
       (/\ req'[p].route \in {"PUT /apartments/:id", "DELETE /apartments/:id"}
        /\ req'[p].pc # "idle"
        /\ req'[p].pc # req[p].pc \/ req'[p].i # req[p].i)
       => /\ employees' = employees
          /\ {a \in apartments' : a.id # req'[p].id} = {a \in apartments : a.id # req'[p].id}
          /\ \A x \in DOMAIN assignments \cup DOMAIN assignments' :
               x.apartment_id # req'[p].id
                 => /\ x \in DOMAIN assignments \cap DOMAIN assignments'
                    /\ assignments'[x] = assignments[x]]_vars

\* an update that changed the staff of its order has answered 200 while
\* another order, with other fields and with staff, is stored
C28_Witness ==
  \E p \in Procs :
    /\ Answered(p, "PUT /apartments/:id")
    /\ req[p].status = 200
    /\ req[p].before # Range(req[p].body.employee_ids)
    /\ \E a \in apartments :
         /\ a.id # req[p].id
         /\ UpdatedApartment(a, req[p].body) # a
         /\ AssignedIds(a.id) # {}

\* ------------------------------------------------------------------------
\* C29: a DELETE /apartments/:id or DELETE /employees/:id with a numeric id
\* is answered 204; when no record has the id the tables are as before; and
\* after it the record is gone and deleting the id again would change
\* nothing.
\* ------------------------------------------------------------------------
C29_DeleteIdempotent ==
  [][\A p \in Procs :
       (/\ req[p].pc = "idle"
        /\ req'[p].pc = "done"
        /\ req'[p].route \in {"DELETE /apartments/:id", "DELETE /employees/:id"}
        /\ req'[p].id # NaN)
       => \A id \in (1..MaxApartmentId) \cup (1..MaxEmployeeId) :
            req'[p].id = id =>
             /\ req'[p].status = 204
             /\ req'[p].route = "DELETE /apartments/:id" =>
                  /\ ApartmentRows(id) = {} => UNCHANGED db
                  /\ ApartmentRows(id)' = {}
                  /\ deleteApartment(id)' = apartments'
                  /\ CascadeApartment(id)' = assignments'
             /\ req'[p].route = "DELETE /employees/:id" =>
                  /\ EmployeeRows(id) = {} => UNCHANGED db
                  /\ EmployeeRows(id)' = {}
                  /\ deleteEmployee(id)' = employees'
                  /\ CascadeEmployee(id)' = assignments']_vars

\* an id that no order ever had has been deleted and answered 204, with
\* orders and assignments stored
C29_Witness ==
  \E p \in Procs :
    /\ Answered(p, "DELETE /apartments/:id")
    /\ req[p].status = 204
    /\ req[p].id > apartments_id_seq
    /\ apartments # {}
    /\ DOMAIN assignments # {}

\* ------------------------------------------------------------------------
\* C22: when a submission of the order form is answered with success, the
\* cache entries of orders, calendar and statistics are invalidated and the
\* modal is closed, whether the modal was creating or editing.
\* ------------------------------------------------------------------------
C22_SuccessInvalidatesAndCloses ==
  [][(/\ client'.pending < client.pending
      /\ client'.res.status \in 200..299)
     => /\ {"/api/apartments", "/api/calendar", "/api/statistics"} \subseteq client'.stale
        /\ ~client'.isOpen]_vars

\* an edit of a stored order has been answered 200 while no entry was stale
C22_Witness ==
  /\ client.res.status = 200
  /\ client.pending = 0
  /\ client.apartment # NoApartment
  /\ client.toast.title = "Ordine"
  /\ client.stale = {"/api/apartments", "/api/calendar", "/api/statistics"}
  /\ ~client.isOpen

\* ------------------------------------------------------------------------
\* C23: when a submission of the order form is answered with a failure, the
\* modal is as open as before, the values of its form are unchanged, no
\* cache entry is invalidated, and the notification is an error whose text
\* ends with the message of the response when the response has one.
\* ------------------------------------------------------------------------
C23_FailureKeepsModal ==
  [][(/\ client'.pending < client.pending
      /\ client'.res.status \notin 200..299)
     => /\ client'.isOpen = client.isOpen
        /\ client'.form = client.form
        /\ client'.stale = client.stale
        /\ client'.toast.title = "Errore"
        /\ client'.res.message # Null =>
             client'.toast.description[Len(client'.toast.description)] = client'.res.message]_vars

\* the modal is open with the values the user entered, the server has
\* answered 400 with a message, and nothing is stale
C23_Witness ==
  /\ client.isOpen
  /\ client.form.name = "Villa"
  /\ client.res.status = 400
  /\ client.toast.title = "Errore"
  /\ client.stale = {}
  /\ client.pending = 0

\* ------------------------------------------------------------------------
\* C24: when the order modal goes from closed to open its form holds the
\* values of the order being edited, or the blank defaults when creating;
\* when the staff modal goes from closed to open its form is blank.
\* ------------------------------------------------------------------------
C24_FormFreshOnOpen ==
  [][/\ (~client.isOpen /\ client'.isOpen) =>
          LET a == client'.apartment
              f == client'.form
          IN /\ f.name = (IF a.name = Null THEN "" ELSE a.name)
             /\ f.cleaning_date = (IF a.cleaning_date = Null THEN "" ELSE a.cleaning_date)
             /\ f.start_time = (IF a.start_time = Null THEN "" ELSE a.start_time)
             /\ f.notes = (IF a.notes = Null THEN "" ELSE a.notes)
             /\ a # NoApartment => f.status = a.status /\ f.payment_status = a.payment_status
             /\ a.price # Null => NumericText[a.price] = a.price /\ f.price = Number[a.price]
             /\ a.price = Null => f.price = 0
             /\ Range(f.employee_ids) = AssignedIds(a.id)
             /\ ~HasDuplicates(f.employee_ids)
     /\ (~client.isEmployeeModalOpen /\ client'.isEmployeeModalOpen) =>
          client'.employeeForm = [first_name |-> "", last_name |-> ""]]_vars

\* ------------------------------------------------------------------------
\* C30: the employee_ids of the order form never hold an id twice.
\* ------------------------------------------------------------------------
C30_SelectionHasNoDuplicates == ~HasDuplicates(client.form.employee_ids)

====
